---------------------------- MODULE Spec2Model ----------------------------
(***************************************************************************)
(* HydraX backend: the building locator (services/building_service.py),    *)
(* the rainfall estimator (services/rainfall_service.py), the geocoder     *)
(* (services/geocoding_service.py), the handler of POST /api/geocode      *)
(* (routes/geocoding.py) that composes them, the volume formulas           *)
(* (processing/rain_calc.py), the maintenance script                       *)
(* swap_coords_if_needed.py and the route /total of app.py with            *)
(* processing/rooftops.py.                                                 *)
(*                                                                         *)
(* The reference data (the rooftops table of data/buildings.db and the     *)
(* weather CSV) is chosen in the initial state and read by the operations. *)
(* Coordinates, areas and rainfall amounts are integers (whole metres,     *)
(* square metres and millimetres); a quotient such as a mean is kept as an *)
(* exact fraction and a square root to 1/DistDigits.  A column of rooftops *)
(* may hold NULL.  The dates of the weather file are valid YYYYMMDD dates; *)
(* a precipitation cell holds any number, nothing, or text.                *)
(***************************************************************************)
EXTENDS Integers, Sequences, FiniteSets, TLC

VARIABLES
    db_exists,        \* os.path.exists(database_path)
    rooftops_table,   \* TRUE when the database holds a table named rooftops
    rooftops,         \* the rows of rooftops, in the order SELECT returns them
    nearest,          \* the last find_nearest_building call and its outcome
    csv_exists,       \* os.path.exists(csv_path)
    weather_csv,      \* the rows of the weather CSV: date and precipitation cells
    annual,           \* the last calculate_annual_rainfall_collection call
    forecast,         \* the last predict_future_rainfall call
    api_key,          \* TRUE when settings.GOOGLE_MAPS_API_KEY is set
    geocoded,         \* the last geocode_address call and its outcome
    response,         \* the last POST /api/geocode and what the handler answered
    collection,       \* the last calculate_predicted_collection or compute_rain call
    rooftops_old,     \* the table rooftops_old of the database, when it exists
    backups,          \* the backup copies of the database file, oldest first
    swap,             \* the run of swap_coords_if_needed.py: its position and locals
    total             \* the last GET /total and what the handler answered

vars == <<db_exists, rooftops_table, rooftops, nearest,
          csv_exists, weather_csv, annual, forecast,
          api_key, geocoded, response,
          collection, rooftops_old, backups, swap, total>>

-----------------------------------------------------------------------------
(* Bounds of the model *)

MaxRows == 2          \* rows in the rooftops table
MaxCoord == 1         \* eastings and northings range over 0..MaxCoord
DistDigits == 100     \* distances are kept to 1/DistDigits of a metre

-----------------------------------------------------------------------------
(* SQLite values: a column of rooftops (easting REAL, northing REAL,       *)
(* area REAL) holds a number or NULL, which Python reads as None.          *)

NULL == [null |-> TRUE, v |-> 0]
Num(x) == [null |-> FALSE, v |-> x]

Coords == 0..MaxCoord
Areas == {10, 20}
CoordCells == {NULL} \cup {Num(x) : x \in Coords}
AreaCells == {NULL} \cup {Num(a) : a \in Areas}
Rows == [easting : CoordCells, northing : CoordCells, area : AreaCells]

SeqsUpTo(S, n) == UNION {[1..k -> S] : k \in 0..n}

-----------------------------------------------------------------------------
(* services/building_service.py *)

\* math.sqrt at the precision of the model: the largest r with r*r <= n,
\* by Newton's iteration from above.
RECURSIVE SqrtSearch(_, _)
SqrtSearch(n, x) ==
    LET y == (x + n \div x) \div 2
    IN IF y >= x THEN x ELSE SqrtSearch(n, y)

Sqrt(n) == IF n = 0 THEN 0 ELSE SqrtSearch(n, n)

\* distance = math.sqrt((easting - db_easting) ** 2 + (northing - db_northing) ** 2),
\* in units of 1/DistDigits metre.
Distance(easting, northing, row) ==
    Sqrt(((easting - row.easting.v) * (easting - row.easting.v)
          + (northing - row.northing.v) * (northing - row.northing.v))
         * DistDigits * DistDigits)

\* min_distance = float('inf'); nearest_area = None
ScanInit == [inf |-> TRUE, min_distance |-> 0, nearest_area |-> NULL]

\* One iteration of the loop with "distance <= min_distance": the last minimum wins.
ScanStep_LastMinimum(acc, easting, northing, row) ==
    LET distance == Distance(easting, northing, row)
    IN IF acc.inf \/ distance <= acc.min_distance
       THEN [inf |-> FALSE, min_distance |-> distance, nearest_area |-> row.area]
       ELSE acc

\* One iteration of the loop: a strictly smaller distance replaces the minimum.
ScanStep(acc, easting, northing, row) ==
    LET distance == Distance(easting, northing, row)
    IN IF acc.inf \/ distance < acc.min_distance
       THEN [inf |-> FALSE, min_distance |-> distance, nearest_area |-> row.area]
       ELSE acc

\* for db_easting, db_northing, area in buildings: over the first k rows.
RECURSIVE Scan(_, _, _, _)
Scan(buildings, k, easting, northing) ==
    IF k = 0 THEN ScanInit
    ELSE ScanStep(Scan(buildings, k - 1, easting, northing),
                  easting, northing, buildings[k])

\* easting - None raises TypeError, which is no sqlite3.Error.
NullCoordinate(buildings) ==
    \E i \in 1..Len(buildings) :
        buildings[i].easting.null \/ buildings[i].northing.null

Raise(exc, msg) ==
    [status |-> exc, message |-> msg, area |-> NULL, distance |-> 0]

Return(area, distance) ==
    [status |-> "ok", message |-> "", area |-> area, distance |-> distance]

\* Lines 58-80: the scan of the fetched rows and what follows it.
NearestOf(buildings, easting, northing) ==
    IF NullCoordinate(buildings)
    THEN Raise("TypeError", "unsupported operand type(s)")
    ELSE LET s == Scan(buildings, Len(buildings), easting, northing)
         IN IF s.nearest_area.null
            THEN Raise("BuildingNotFoundError", "Could not find nearest building")
            ELSE Return(s.nearest_area, s.min_distance)

\* find_nearest_building with "if not buildings" answering a default instead of raising.
find_nearest_building_EmptyDefault(exists, has_table, buildings, easting, northing) ==
    IF ~exists
    THEN Raise("BuildingNotFoundError", "Database file not found")
    ELSE IF ~has_table
    THEN Raise("BuildingNotFoundError", "Database error")
    ELSE IF buildings = <<>>
    THEN Return(Num(0), 0)
    ELSE NearestOf(buildings, easting, northing)

\* find_nearest_building letting the sqlite3.Error of the query through.
find_nearest_building_Unwrapped(exists, has_table, buildings, easting, northing) ==
    IF ~exists
    THEN Raise("BuildingNotFoundError", "Database file not found")
    ELSE IF ~has_table
    THEN Raise("OperationalError", "no such table: rooftops")
    ELSE IF buildings = <<>>
    THEN Raise("BuildingNotFoundError", "No buildings found in database")
    ELSE NearestOf(buildings, easting, northing)

find_nearest_building(exists, has_table, buildings, easting, northing) ==
    IF ~exists
    THEN Raise("BuildingNotFoundError", "Database file not found")
    ELSE IF ~has_table    \* cursor.execute raises sqlite3.OperationalError
    THEN Raise("BuildingNotFoundError", "Database error")
    ELSE IF buildings = <<>>
    THEN Raise("BuildingNotFoundError", "No buildings found in database")
    ELSE NearestOf(buildings, easting, northing)

NoAnnual == [called |-> FALSE]
NoForecast == [called |-> FALSE]
NoGeocode == [called |-> FALSE]
NoResponse == [called |-> FALSE]
NoCollection == [called |-> FALSE]
NoTable == [exists |-> FALSE, rows |-> <<>>]
NoSwap == [pc |-> "none"]
NoTotal == [called |-> FALSE]

\* The call with conn.close() on the normal return only: no finally clause.
ConnectionEvents_CloseOnReturn(exists, result) ==
    IF ~exists THEN <<"raise">>
    ELSE IF result.status = "ok" THEN <<"connect", "close", "return">>
    ELSE <<"connect", "raise">>

\* Lines 43-84: what a call does with its connection.  Line 44 raises
\* before any connection is opened; otherwise line 46 opens one and the
\* finally clause of line 84 closes it, however the try block is left.
ConnectionEvents(exists, result) ==
    IF ~exists THEN <<"raise">>
    ELSE <<"connect", "close",
           IF result.status = "ok" THEN "return" ELSE "raise">>

NoCall == [called |-> FALSE, easting |-> 0, northing |-> 0,
           result |-> Raise("none", ""), connection |-> <<>>]

\* A call for the building nearest to (easting, northing).
FindNearestBuilding ==
    /\ ~nearest.called
    /\ \E easting \in Coords, northing \in Coords :
          LET result == find_nearest_building(db_exists, rooftops_table,
                                              rooftops, easting, northing)
          IN nearest' = [called |-> TRUE, easting |-> easting,
                         northing |-> northing, result |-> result,
                         connection |-> ConnectionEvents(db_exists, result)]
    /\ UNCHANGED <<db_exists, rooftops_table, rooftops,
                   csv_exists, weather_csv, annual, forecast,
                   api_key, geocoded, response,
                   collection, rooftops_old, backups, swap, total>>

\* The caller has taken the outcome; the next call starts afresh.
EndFindNearestBuilding ==
    /\ nearest.called
    /\ nearest' = NoCall
    /\ UNCHANGED <<db_exists, rooftops_table, rooftops,
                   csv_exists, weather_csv, annual, forecast,
                   api_key, geocoded, response,
                   collection, rooftops_old, backups, swap, total>>

InitBuilding ==
    /\ db_exists \in BOOLEAN
    /\ rooftops_table \in BOOLEAN
    /\ rooftops \in SeqsUpTo(Rows, MaxRows)
    /\ (~db_exists => ~rooftops_table)
    /\ (~rooftops_table => rooftops = <<>>)
    /\ nearest = NoCall
    /\ csv_exists = TRUE
    /\ weather_csv = <<>>
    /\ annual = NoAnnual
    /\ forecast = NoForecast
    /\ api_key = TRUE
    /\ geocoded = NoGeocode
    /\ response = NoResponse
    /\ collection = NoCollection
    /\ rooftops_old = NoTable
    /\ backups = <<>>
    /\ swap = NoSwap
    /\ total = NoTotal

NextBuilding == FindNearestBuilding \/ EndFindNearestBuilding

SpecBuilding == InitBuilding /\ [][NextBuilding]_vars

-----------------------------------------------------------------------------
(* Floating-point values of the rainfall estimator: NaN, or an exact       *)
(* fraction in lowest terms with a positive denominator.                   *)

Abs(x) == IF x < 0 THEN 0 - x ELSE x

RECURSIVE Gcd(_, _)
Gcd(a, b) == IF b = 0 THEN a ELSE Gcd(b, a % b)

NaN == [nan |-> TRUE, num |-> 0, den |-> 1]

\* The value n / d, d # 0.
Frac(n, d) ==
    LET g == Gcd(Abs(n), Abs(d))
        sign == IF d < 0 THEN 0 - 1 ELSE 1
    IN [nan |-> FALSE, num |-> sign * (n \div g), den |-> sign * (d \div g)]

Float(x) == Frac(x, 1)

\* a * b, a / b and a + b; NaN propagates.
Mul(a, b) == IF a.nan \/ b.nan THEN NaN ELSE Frac(a.num * b.num, a.den * b.den)
Div(a, b) == IF a.nan \/ b.nan THEN NaN ELSE Frac(a.num * b.den, a.den * b.num)
Add(a, b) == IF a.nan \/ b.nan THEN NaN
             ELSE Frac(a.num * b.den + b.num * a.den, a.den * b.den)

\* a < b and a > b; every comparison with NaN is False.
Less(a, b) == ~a.nan /\ ~b.nan /\ a.num * b.den < b.num * a.den
Greater(a, b) == Less(b, a)

-----------------------------------------------------------------------------
(* services/rainfall_service.py: the weather data and the historical path *)

RUNOFF_COEFF == Frac(9, 10)

FirstYear == 2019     \* the earliest year a weather file of the model holds
SampleYears == 2      \* years the files of SpecAnnual range over
MaxRecords == 2       \* rows of a weather file of SpecAnnual

\* The date column holds integers YYYYMMDD.
Date(year, monthday) == year * 10000 + monthday

\* A cell of the precipitation column: a number, an empty cell (read_csv
\* gives NaN) or text that is no number.
NumCell(x) == [kind |-> "num", v |-> x]
EmptyCell == [kind |-> "empty", v |-> 0]
TextCell == [kind |-> "text", v |-> 0]

\* pd.to_datetime(df['date'].astype(str), format='%Y%m%d').dt.year and .dt.month
YearOf(date) == date \div 10000
MonthOf(date) == (date \div 100) % 100

\* pd.to_numeric(..., errors='coerce'): what is no number becomes NaN.
ToNumeric(cell) == IF cell.kind = "num" THEN Float(cell.v) ELSE NaN

\* .fillna(0)
FillNa(x) == IF x.nan THEN Float(0) ELSE x

\* The frame load_weather_data returns, row by row.
load_weather_data(csv) ==
    [i \in 1..Len(csv) |->
        [date |-> csv[i].date,
         year |-> YearOf(csv[i].date),
         month |-> MonthOf(csv[i].date),
         precipitation |-> FillNa(ToNumeric(csv[i].precipitation))]]

\* The ascending sequence of the integers of a finite set.
RECURSIVE Sorted(_)
Sorted(S) ==
    IF S = {} THEN <<>>
    ELSE LET m == CHOOSE x \in S : \A y \in S : x <= y
         IN <<m>> \o Sorted(S \ {m})

\* The sum taken over the whole column instead of the year's group.
RECURSIVE SumOfYear_WholeColumn(_, _, _)
SumOfYear_WholeColumn(df, k, year) ==
    IF k = 0 THEN Float(0)
    ELSE Add(SumOfYear_WholeColumn(df, k - 1, year), df[k].precipitation)

\* The sum of the precipitation of the first k rows of df that fall in year.
RECURSIVE SumOfYear(_, _, _)
SumOfYear(df, k, year) ==
    IF k = 0 THEN Float(0)
    ELSE IF df[k].year = year
         THEN Add(SumOfYear(df, k - 1, year), df[k].precipitation)
         ELSE SumOfYear(df, k - 1, year)

\* df.groupby('year')['precipitation'].sum(): one entry per year, ascending.
AnnualPrecipitation(df) ==
    LET years == Sorted({df[i].year : i \in 1..Len(df)})
    IN [j \in 1..Len(years) |->
           [year |-> years[j],
            annual_rainfall_mm |-> SumOfYear(df, Len(df), years[j])]]

\* The sum of the annual totals of the first k entries.
RECURSIVE SumOfTotals(_, _)
SumOfTotals(series, k) ==
    IF k = 0 THEN Float(0)
    ELSE Add(SumOfTotals(series, k - 1), series[k].annual_rainfall_mm)

\* Series.mean(): NaN for an empty series.
Mean(series) ==
    IF Len(series) = 0 THEN NaN
    ELSE Div(SumOfTotals(series, Len(series)), Float(Len(series)))

\* The volume with the runoff coefficient left out.
Liters_NoRunoff(building_area_m2, rainfall_mm) ==
    Mul(Mul(Float(building_area_m2), Div(rainfall_mm, Float(1000))),
        Float(1000))

\* building_area_m2 * (rainfall_mm / 1000) * RUNOFF_COEFF * 1000
Liters(building_area_m2, rainfall_mm) ==
    Mul(Mul(Mul(Float(building_area_m2), Div(rainfall_mm, Float(1000))),
            RUNOFF_COEFF),
        Float(1000))

\* sorted(keys): insertion sort of a sequence of integers.
RECURSIVE SortedSeq(_)
SortedSeq(q) ==
    IF q = <<>> THEN <<>>
    ELSE LET rest == SortedSeq(Tail(q))
             before == SelectSeq(rest, LAMBDA x : x <= Head(q))
             after == SelectSeq(rest, LAMBDA x : x > Head(q))
         IN before \o <<Head(q)>> \o after

RaiseRain(exc) == [status |-> exc]

calculate_annual_rainfall_collection(building_area_m2, exists, csv) ==
    IF ~exists THEN RaiseRain("FileNotFoundError")
    ELSE
    LET df == load_weather_data(csv)
        annual_precipitation == AnnualPrecipitation(df)
        annual_collection ==
            [j \in 1..Len(annual_precipitation) |->
                [year |-> annual_precipitation[j].year,
                 rainfall_mm |-> annual_precipitation[j].annual_rainfall_mm,
                 collection_liters |->
                     Liters(building_area_m2,
                            annual_precipitation[j].annual_rainfall_mm)]]
        avg_annual_rainfall == Mean(annual_precipitation)
    IN [status |-> "ok",
        annual_data |-> annual_collection,
        average_annual_rainfall_mm |-> avg_annual_rainfall,
        average_annual_collection_liters |->
            Liters(building_area_m2, avg_annual_rainfall),
        years_available |->
            SortedSeq([j \in 1..Len(annual_collection) |-> annual_collection[j].year])]

\* A call of the historical path for a roof of building_area_m2.
CalculateAnnualRainfallCollection ==
    /\ ~annual.called
    /\ \E building_area_m2 \in Areas :
          annual' = [called |-> TRUE, building_area_m2 |-> building_area_m2,
                     result |-> calculate_annual_rainfall_collection(
                                    building_area_m2, csv_exists, weather_csv)]
    /\ UNCHANGED <<db_exists, rooftops_table, rooftops, nearest,
                   csv_exists, weather_csv, forecast,
                   api_key, geocoded, response,
                   collection, rooftops_old, backups, swap, total>>

\* The caller has taken the outcome; the next call starts afresh.
EndCalculateAnnualRainfallCollection ==
    /\ annual.called
    /\ annual' = NoAnnual
    /\ UNCHANGED <<db_exists, rooftops_table, rooftops, nearest,
                   csv_exists, weather_csv, forecast,
                   api_key, geocoded, response,
                   collection, rooftops_old, backups, swap, total>>

SampleDates ==
    {Date(FirstYear + y, md) : y \in 0..(SampleYears - 1), md \in {101, 1231}}
SampleCells == {NumCell(0 - 1), NumCell(2), EmptyCell, TextCell}
SampleRecords == [date : SampleDates, precipitation : SampleCells]

InitAnnual ==
    /\ db_exists = TRUE
    /\ rooftops_table = TRUE
    /\ rooftops = <<>>
    /\ nearest = NoCall
    /\ csv_exists \in BOOLEAN
    /\ weather_csv \in SeqsUpTo(SampleRecords, MaxRecords)
    /\ (~csv_exists => weather_csv = <<>>)
    /\ annual = NoAnnual
    /\ forecast = NoForecast
    /\ api_key = TRUE
    /\ geocoded = NoGeocode
    /\ response = NoResponse
    /\ collection = NoCollection
    /\ rooftops_old = NoTable
    /\ backups = <<>>
    /\ swap = NoSwap
    /\ total = NoTotal

NextAnnual ==
    CalculateAnnualRainfallCollection \/ EndCalculateAnnualRainfallCollection

SpecAnnual == InitAnnual /\ [][NextAnnual]_vars

-----------------------------------------------------------------------------
(* services/rainfall_service.py: the predictive path *)

MaxYears == 5         \* years the files of SpecForecast range over
MaxAhead == 2         \* years_ahead ranges over 0..MaxAhead

\* Series.rolling(window=3, min_periods=1): the entries i-2..i that exist.
Window(series, i) ==
    SubSeq(series, IF i > 2 THEN i - 2 ELSE 1, i)

\* The sum of (x - m)^2 over the first k entries of a window.
RECURSIVE SquaredDeviations(_, _, _)
SquaredDeviations(w, k, m) ==
    IF k = 0 THEN Float(0)
    ELSE LET d == Add(w[k].annual_rainfall_mm, Mul(Float(0 - 1), m))
         IN Add(SquaredDeviations(w, k - 1, m), Mul(d, d))

\* .std() of a window: the sample deviation, NaN for a single entry; the
\* square root is kept to 1/DistDigits.
Std(w) ==
    IF Len(w) < 2 THEN NaN
    ELSE LET var == Div(SquaredDeviations(w, Len(w), Mean(w)), Float(Len(w) - 1))
         IN Frac(Sqrt((var.num * DistDigits * DistDigits) \div var.den), DistDigits)

\* Lines 116-122: the annual series with its lag and rolling columns;
\* shift(1) and shift(2) leave NaN in the first rows.
WithFeatures(series) ==
    [i \in 1..Len(series) |->
        [year |-> series[i].year,
         annual_rainfall_mm |-> series[i].annual_rainfall_mm,
         lag1 |-> IF i > 1 THEN series[i - 1].annual_rainfall_mm ELSE NaN,
         lag2 |-> IF i > 2 THEN series[i - 2].annual_rainfall_mm ELSE NaN,
         rolling_mean |-> Mean(Window(series, i)),
         rolling_std |-> Std(Window(series, i))]]

\* .dropna(): the rows with no NaN in any column.
DropNa(frame) ==
    SelectSeq(frame, LAMBDA r :
        ~(r.annual_rainfall_mm.nan \/ r.lag1.nan \/ r.lag2.nan
          \/ r.rolling_mean.nan \/ r.rolling_std.nan))

\* "if len(annual_precipitation) <= 3": one sample more is asked for.
TooFewSamples_OffByOne(frame) == Len(frame) <= 3

\* if len(annual_precipitation) < 3
TooFewSamples(frame) == Len(frame) < 3

\* annual_precipitation['year'].max(): NaN for an empty frame.
MaxYear(frame) ==
    IF Len(frame) = 0 THEN NaN
    ELSE Float(CHOOSE y \in {frame[i].year : i \in 1..Len(frame)} :
                   \A i \in 1..Len(frame) : frame[i].year <= y)

\* The outcome of predict_future_rainfall: the path taken, the dict of
\* predictions in insertion order and, on the model path, the features
\* handed to the regressor at each step.
Predicted(path, predictions, features) ==
    [status |-> "ok", path |-> path,
     predictions |-> predictions, features |-> features]

RaisePredict(exc, path) ==
    [status |-> exc, path |-> path, predictions |-> <<>>, features |-> <<>>]

\* int(last_year + i) raises ValueError for NaN, in the first iteration.
_simple_linear_prediction(annual_precipitation, years_ahead) ==
    LET last_year == MaxYear(annual_precipitation)
        avg_rainfall == Mean(annual_precipitation)
    IN IF years_ahead >= 1 /\ last_year.nan
       THEN RaisePredict("ValueError", "fallback")
       ELSE Predicted("fallback",
                      [i \in 1..years_ahead |->
                          [year |-> last_year.num + i,
                           rainfall_mm |-> avg_rainfall]],
                      <<>>)

\* max(0, x): x when x > 0, which is False for NaN.
Max0(x) == IF Greater(x, Float(0)) THEN x ELSE Float(0)

\* The regressor averages training targets: model.predict answers a value
\* between the least and the greatest annual total it was fitted on.
PredictionRange(frame) ==
    {x \in -10..10 :
        /\ \E i \in 1..Len(frame) : ~Less(Float(x), frame[i].annual_rainfall_mm)
        /\ \E i \in 1..Len(frame) : ~Greater(Float(x), frame[i].annual_rainfall_mm)}

\* Lines 151-155: the loop's variables before the first iteration.
LoopInit(last) ==
    [predictions |-> <<>>, features |-> <<>>,
     current_lag1 |-> last.annual_rainfall_mm,
     current_lag2 |-> last.lag1,
     current_rolling_mean |-> last.rolling_mean,
     current_rolling_std |-> last.rolling_std]

\* Lines 158-174: one iteration, model.predict answering predicted_rainfall.
LoopStep(st, future_year, predicted_rainfall) ==
    [predictions |->
        Append(st.predictions,
               [year |-> future_year, rainfall_mm |-> Max0(predicted_rainfall)]),
     features |->
        Append(st.features,
               [year |-> future_year,
                lag1 |-> st.current_lag1,
                lag2 |-> st.current_lag2,
                rolling_mean |-> st.current_rolling_mean,
                rolling_std |-> st.current_rolling_std]),
     current_lag1 |-> predicted_rainfall,
     current_lag2 |-> st.current_lag1,
     current_rolling_mean |->
        Div(Add(Mul(st.current_rolling_mean, Float(2)), predicted_rainfall),
            Float(3)),
     current_rolling_std |->
        IF Greater(st.current_rolling_std, Float(0))
        THEN Mul(st.current_rolling_std, Frac(95, 100))
        ELSE st.current_rolling_std]

\* for i in range(1, years_ahead + 1): the first k iterations.
RECURSIVE Loop(_, _, _, _)
Loop(last, last_year, outputs, k) ==
    IF k = 0 THEN LoopInit(last)
    ELSE LoopStep(Loop(last, last_year, outputs, k - 1),
                  last_year + k, Float(outputs[k]))

\* outputs[i] is what model.predict answers in iteration i.
predict_future_rainfall(exists, csv, years_ahead, outputs) ==
    IF ~exists THEN RaisePredict("FileNotFoundError", "load")
    ELSE
    LET df == load_weather_data(csv)
        annual_precipitation == DropNa(WithFeatures(AnnualPrecipitation(df)))
    IN IF TooFewSamples(annual_precipitation)
       THEN _simple_linear_prediction(annual_precipitation, years_ahead)
       ELSE LET last_year == MaxYear(annual_precipitation).num
                last == CHOOSE r \in {annual_precipitation[i] :
                                        i \in 1..Len(annual_precipitation)} :
                            r.year = last_year
                st == Loop(last, last_year, outputs, years_ahead)
            IN Predicted("model", st.predictions, st.features)

\* The values model.predict may answer in the iterations of a call; the
\* fallback path and a missing file ask the regressor nothing.
ModelOutputs(exists, csv, years_ahead) ==
    LET frame == DropNa(WithFeatures(AnnualPrecipitation(load_weather_data(csv))))
    IN IF ~exists \/ TooFewSamples(frame)
       THEN {[i \in 1..years_ahead |-> 0]}
       ELSE [1..years_ahead -> PredictionRange(frame)]

\* A call of the predictive path for years_ahead years.
PredictFutureRainfall ==
    /\ ~forecast.called
    /\ \E years_ahead \in 0..MaxAhead :
          \E outputs \in ModelOutputs(csv_exists, weather_csv, years_ahead) :
             forecast' = [called |-> TRUE, years_ahead |-> years_ahead,
                          result |-> predict_future_rainfall(
                                         csv_exists, weather_csv, years_ahead, outputs)]
    /\ UNCHANGED <<db_exists, rooftops_table, rooftops, nearest,
                   csv_exists, weather_csv, annual,
                   api_key, geocoded, response,
                   collection, rooftops_old, backups, swap, total>>

\* The caller has taken the outcome; the next call starts afresh.
EndPredictFutureRainfall ==
    /\ forecast.called
    /\ forecast' = NoForecast
    /\ UNCHANGED <<db_exists, rooftops_table, rooftops, nearest,
                   csv_exists, weather_csv, annual,
                   api_key, geocoded, response,
                   collection, rooftops_old, backups, swap, total>>

\* The files of SpecForecast are daily logs in date order with at most one
\* row per date: one date in each year, and a second one in the first year.
LogDates ==
    {Date(FirstYear + y, 101) : y \in 0..(MaxYears - 1)}
        \cup {Date(FirstYear, 1231)}
LogCells == {NumCell(0 - 1), NumCell(2)}
NoRow == [kind |-> "none", v |-> 0]

\* The file holding, in date order, the dates that cells gives a cell.
LogFile(cells) ==
    LET dates == Sorted({d \in LogDates : cells[d] # NoRow})
    IN [i \in 1..Len(dates) |->
           [date |-> dates[i], precipitation |-> cells[dates[i]]]]

InitForecast ==
    /\ db_exists = TRUE
    /\ rooftops_table = TRUE
    /\ rooftops = <<>>
    /\ nearest = NoCall
    /\ csv_exists \in BOOLEAN
    /\ \E cells \in [LogDates -> LogCells \cup {NoRow}] :
          weather_csv = LogFile(cells)
    /\ (~csv_exists => weather_csv = <<>>)
    /\ annual = NoAnnual
    /\ forecast = NoForecast
    /\ api_key = TRUE
    /\ geocoded = NoGeocode
    /\ response = NoResponse
    /\ collection = NoCollection
    /\ rooftops_old = NoTable
    /\ backups = <<>>
    /\ swap = NoSwap
    /\ total = NoTotal

NextForecast == PredictFutureRainfall \/ EndPredictFutureRainfall

SpecForecast == InitForecast /\ [][NextForecast]_vars

-----------------------------------------------------------------------------
(* services/geocoding_service.py.  The geocoding API is outside the        *)
(* program: what it answers to a GET is an input of the call.  Latitudes   *)
(* and longitudes are whole degrees.                                       *)

MaxResults == 2       \* entries of "results" in an answer of the API

Addresses == {"10 Downing St, London", "nowhere"}
Latitudes == {51, 52}
Longitudes == {0 - 1, 0}

\* An entry of "results": its geometry.location, or an entry lacking it.
Location(lat, lng) == [geometry |-> TRUE, lat |-> lat, lng |-> lng]
NoGeometry == [geometry |-> FALSE, lat |-> 0, lng |-> 0]
Results == {Location(lat, lng) : lat \in Latitudes, lng \in Longitudes}
               \cup {NoGeometry}

\* The body of an answer: a JSON object with "status" and "results", or
\* text that resp.json() cannot parse.
Json(status, results) == [valid |-> TRUE, status |-> status, results |-> results]
NotJson == [valid |-> FALSE, status |-> "", results |-> <<>>]

\* requests.get raises exc, or returns a response.
Unreachable(exc) == [raises |-> exc, status_code |-> 0, json |-> NotJson]
Answered(status_code, json) ==
    [raises |-> "", status_code |-> status_code, json |-> json]

Answers ==
    {Unreachable(exc) : exc \in {"Timeout", "ConnectionError"}}
        \cup {Answered(code, NotJson) : code \in {200, 403, 500}}
        \cup {Answered(200, Json(status, results)) :
                 status \in {"OK", "ZERO_RESULTS"},
                 results \in SeqsUpTo(Results, MaxResults)}

\* transformer.transform(x, y), EPSG:4326 to EPSG:27700 with always_xy: x is
\* the longitude, y the latitude.  The projection is pyproj's; it is stood
\* for by an affine map from the grid's true origin (49 N, 2 W), each axis
\* with its own scale and offset, in units of 10 km.
Transform(x, y) == <<40 + 7 * (x + 2), 11 * (y - 49) - 10>>

\* transformer.transform(lat, lng): the arguments swapped.
Project_LatitudeFirst(location) == Transform(location.lat, location.lng)

\* Line 53: transformer.transform(lng, lat)
Project(location) == Transform(location.lng, location.lat)

GeoRaise(exc) == [status |-> exc, easting |-> 0, northing |-> 0]
GeoReturn(point) == [status |-> "ok", easting |-> point[1], northing |-> point[2]]

geocode_address(address, key, answer) ==
    IF ~key THEN GeoRaise("RuntimeError")
    ELSE IF answer.raises # "" THEN GeoRaise(answer.raises)
    ELSE IF answer.status_code # 200 THEN GeoRaise("GeocodingError")
    ELSE IF ~answer.json.valid THEN GeoRaise("JSONDecodeError")
    ELSE IF answer.json.status # "OK" \/ answer.json.results = <<>>
    THEN GeoRaise("GeocodingError")
    ELSE LET first == answer.json.results[1]
         IN IF ~first.geometry THEN GeoRaise("KeyError")
            ELSE GeoReturn(Project(first))

\* A call of the geocoder for an address, the API answering answer.
GeocodeAddress ==
    /\ ~geocoded.called
    /\ \E address \in Addresses, answer \in Answers :
          geocoded' = [called |-> TRUE, address |-> address, answer |-> answer,
                       result |-> geocode_address(address, api_key, answer)]
    /\ UNCHANGED <<db_exists, rooftops_table, rooftops, nearest,
                   csv_exists, weather_csv, annual, forecast,
                   api_key, response,
                   collection, rooftops_old, backups, swap, total>>

\* The caller has taken the outcome; the next call starts afresh.
EndGeocodeAddress ==
    /\ geocoded.called
    /\ geocoded' = NoGeocode
    /\ UNCHANGED <<db_exists, rooftops_table, rooftops, nearest,
                   csv_exists, weather_csv, annual, forecast,
                   api_key, response,
                   collection, rooftops_old, backups, swap, total>>

InitGeocoder ==
    /\ db_exists = TRUE
    /\ rooftops_table = TRUE
    /\ rooftops = <<>>
    /\ nearest = NoCall
    /\ csv_exists = TRUE
    /\ weather_csv = <<>>
    /\ annual = NoAnnual
    /\ forecast = NoForecast
    /\ api_key \in BOOLEAN
    /\ geocoded = NoGeocode
    /\ response = NoResponse
    /\ collection = NoCollection
    /\ rooftops_old = NoTable
    /\ backups = <<>>
    /\ swap = NoSwap
    /\ total = NoTotal

NextGeocoder == GeocodeAddress \/ EndGeocodeAddress

SpecGeocoder == InitGeocoder /\ [][NextGeocoder]_vars

-----------------------------------------------------------------------------
(* routes/geocoding.py: POST /api/geocode.  The handler reads the database *)
(* and the weather file at their fixed paths, that is the state.           *)

RouteYearsAhead == 10     \* predict_future_rainfall(years_ahead=10)

\* A JSON value under "address": a string, or a value of another type
\* (a number; null, which is falsy).
Str(text) == [is_str |-> TRUE, truthy |-> text # "", text |-> text]
NotStr(truthy) == [is_str |-> FALSE, truthy |-> truthy, text |-> ""]
None == NotStr(FALSE)

\* request.get_json(silent=True): None for a body that is no JSON, or the
\* parsed value: an object, with or without "address", or an array.
NoJsonBody ==
    [json |-> "none", truthy |-> FALSE, has_address |-> FALSE, address |-> None]
ObjectWithout(truthy) ==
    [json |-> "object", truthy |-> truthy, has_address |-> FALSE, address |-> None]
ObjectWith(address) ==
    [json |-> "object", truthy |-> TRUE, has_address |-> TRUE, address |-> address]
JsonArray(truthy) ==
    [json |-> "array", truthy |-> truthy, has_address |-> FALSE, address |-> None]

AddressValues ==
    {Str(text) : text \in Addresses \cup {""}} \cup {NotStr(TRUE), None}
Bodies ==
    {NoJsonBody} \cup {ObjectWithout(t) : t \in BOOLEAN}
        \cup {ObjectWith(a) : a \in AddressValues}
        \cup {JsonArray(t) : t \in BOOLEAN}

\* What becomes of a request: an exception leaves the handler, or it
\* returns jsonify(...) with a status code.  trace lists the stages the
\* handler invoked, in order, each with its outcome.
Escaped(exc, trace) ==
    [raised |-> exc, status_code |-> 0, keys |-> {}, error |-> "",
     detail |-> "", payload |-> <<>>, trace |-> trace]
ErrorJson(status_code, error, detail, trace) ==
    [raised |-> "", status_code |-> status_code, keys |-> {"error"},
     error |-> error, detail |-> detail, payload |-> <<>>, trace |-> trace]
SuccessJson(payload, trace) ==
    [raised |-> "", status_code |-> 200, keys |-> DOMAIN payload,
     error |-> "", detail |-> "", payload |-> payload, trace |-> trace]

Invoked(trace, stage, outcome) ==
    Append(trace, [stage |-> stage, outcome |-> outcome])

\* The predicted volume with the efficiency 0.85 of app.py for RUNOFF_COEFF.
calculate_predicted_collection_Efficiency(building_area_m2, predicted_rainfall) ==
    [k \in 1..Len(predicted_rainfall) |->
        [year |-> predicted_rainfall[k].year,
         predicted_rainfall_mm |-> predicted_rainfall[k].rainfall_mm,
         predicted_collection_liters |->
             Mul(Mul(Float(building_area_m2), predicted_rainfall[k].rainfall_mm),
                 Frac(85, 100))]]

\* services/rainfall_service.py, lines 193-213
calculate_predicted_collection(building_area_m2, predicted_rainfall) ==
    [k \in 1..Len(predicted_rainfall) |->
        [year |-> predicted_rainfall[k].year,
         predicted_rainfall_mm |-> predicted_rainfall[k].rainfall_mm,
         predicted_collection_liters |->
             Liters(building_area_m2, predicted_rainfall[k].rainfall_mm)]]

\* Lines 68-81
PredictionStage(address, point, building_area, annual_data, outputs, trace) ==
    LET predicted_rainfall ==
            predict_future_rainfall(csv_exists, weather_csv,
                                    RouteYearsAhead, outputs)
        done == Invoked(trace, "prediction", predicted_rainfall.status)
    IN IF predicted_rainfall.status # "ok"
       THEN ErrorJson(500, "Error predicting future rainfall",
                      predicted_rainfall.status, done)
       ELSE SuccessJson(
                [address |-> address,
                 easting |-> point.easting,
                 northing |-> point.northing,
                 building_area |-> building_area,
                 annual_rainfall_collection |-> annual_data,
                 predicted_rainfall |->
                     calculate_predicted_collection(
                         building_area, predicted_rainfall.predictions)],
                done)

\* The historical stage answering 200 with what it has when the estimator raises.
HistoricalStage_PartialPayload(address, point, building_area, outputs, trace) ==
    LET annual_collection_data ==
            calculate_annual_rainfall_collection(building_area, csv_exists,
                                                 weather_csv)
        done == Invoked(trace, "historical", annual_collection_data.status)
    IN IF annual_collection_data.status # "ok"
       THEN SuccessJson([address |-> address, easting |-> point.easting,
                         northing |-> point.northing,
                         building_area |-> building_area], done)
       ELSE PredictionStage(address, point, building_area,
                            annual_collection_data, outputs, done)

\* Lines 62-66
HistoricalStage(address, point, building_area, outputs, trace) ==
    LET annual_collection_data ==
            calculate_annual_rainfall_collection(building_area, csv_exists,
                                                 weather_csv)
        done == Invoked(trace, "historical", annual_collection_data.status)
    IN IF annual_collection_data.status # "ok"
       THEN ErrorJson(500, "Error calculating annual rainfall",
                      annual_collection_data.status, done)
       ELSE PredictionStage(address, point, building_area,
                            annual_collection_data, outputs, done)

\* The locator stage asking the locator a second time when it raises.
LocateStage_Retry(address, point, outputs, trace) ==
    LET building_info ==
            find_nearest_building(db_exists, rooftops_table, rooftops,
                                  point.easting, point.northing)
        done == Invoked(trace, "locate", building_info.status)
    IN IF building_info.status = "BuildingNotFoundError"
       THEN ErrorJson(500, "No buildings found in database", "",
                      Invoked(done, "locate", building_info.status))
       ELSE IF building_info.status # "ok"
       THEN ErrorJson(500, "Error finding building", building_info.message, done)
       ELSE HistoricalStage(address, point, building_info.area.v, outputs, done)

\* Lines 52-60
LocateStage(address, point, outputs, trace) ==
    LET building_info ==
            find_nearest_building(db_exists, rooftops_table, rooftops,
                                  point.easting, point.northing)
        done == Invoked(trace, "locate", building_info.status)
    IN IF building_info.status = "BuildingNotFoundError"
       THEN ErrorJson(500, "No buildings found in database", "", done)
       ELSE IF building_info.status # "ok"
       THEN ErrorJson(500, "Error finding building", building_info.message, done)
       ELSE HistoricalStage(address, point, building_info.area.v, outputs, done)

\* The geocoding stage answering 400 for every exception of the geocoder.
GeocodeStage_AlwaysInvalid(address, answer, outputs) ==
    LET point == geocode_address(address, api_key, answer)
        done == Invoked(<<>>, "geocode", point.status)
    IN IF point.status # "ok"
       THEN ErrorJson(400, "Invalid address", "", done)
       ELSE LocateStage(address, point, outputs, done)

\* Lines 44-50
GeocodeStage(address, answer, outputs) ==
    LET point == geocode_address(address, api_key, answer)
        done == Invoked(<<>>, "geocode", point.status)
    IN IF point.status = "GeocodingError"
       THEN ErrorJson(400, "Invalid address", "", done)
       ELSE IF point.status # "ok"
       THEN ErrorJson(500, "Internal server error", "", done)
       ELSE LocateStage(address, point, outputs, done)

\* Lines 38-42: "or {}" replaces a falsy body; .get exists on objects only.
geocode(body, answer, outputs) ==
    IF body.truthy /\ body.json # "object"
    THEN Escaped("AttributeError", <<>>)
    ELSE LET address == IF body.truthy /\ body.has_address
                        THEN body.address ELSE None
         IN IF ~address.truthy \/ ~address.is_str
            THEN ErrorJson(400, "address is required", "", <<>>)
            ELSE GeocodeStage(address.text, answer, outputs)

\* The answers of the API with at most one result: every outcome of the
\* geocoder occurs with one of them.
RouteAnswers == {answer \in Answers : Len(answer.json.results) <= 1}

\* The handler serves one POST: its body, what the API would answer and
\* what the regressor would predict are the inputs.
Serve ==
    /\ ~response.called
    /\ \E body \in Bodies, answer \in RouteAnswers :
          \E outputs \in ModelOutputs(csv_exists, weather_csv, RouteYearsAhead) :
             response' = [called |-> TRUE, body |-> body, answer |-> answer,
                          result |-> geocode(body, answer, outputs)]

\* A request that empties the rooftops table on its way.
GeocodeRequest_Truncating ==
    /\ Serve
    /\ rooftops' = <<>>
    /\ UNCHANGED <<db_exists, rooftops_table, nearest,
                   csv_exists, weather_csv, annual, forecast,
                   api_key, geocoded,
                   collection, rooftops_old, backups, swap, total>>

\* POST /api/geocode: the database is read with SELECT and closed, the
\* weather file is read with read_csv; nothing is written.
GeocodeRequest ==
    /\ Serve
    /\ UNCHANGED <<db_exists, rooftops_table, rooftops, nearest,
                   csv_exists, weather_csv, annual, forecast,
                   api_key, geocoded,
                   collection, rooftops_old, backups, swap, total>>

\* The response is sent; the next request starts afresh.
EndGeocodeRequest ==
    /\ response.called
    /\ response' = NoResponse
    /\ UNCHANGED <<db_exists, rooftops_table, rooftops, nearest,
                   csv_exists, weather_csv, annual, forecast,
                   api_key, geocoded,
                   collection, rooftops_old, backups, swap, total>>

\* The weather file of SpecRoute: one row of 2 mm in each of the first k
\* years; every outcome of the estimator's two stages occurs with one.
RouteWeather(k) ==
    [i \in 1..k |->
        [date |-> Date(FirstYear + i - 1, 101), precipitation |-> NumCell(2)]]

InitRoute ==
    /\ db_exists \in BOOLEAN
    /\ rooftops_table \in BOOLEAN
    /\ rooftops \in SeqsUpTo(Rows, 1)
    /\ (~db_exists => ~rooftops_table)
    /\ (~rooftops_table => rooftops = <<>>)
    /\ nearest = NoCall
    /\ csv_exists \in BOOLEAN
    /\ \E k \in 0..MaxYears : weather_csv = RouteWeather(k)
    /\ (~csv_exists => weather_csv = <<>>)
    /\ annual = NoAnnual
    /\ forecast = NoForecast
    /\ api_key \in BOOLEAN
    /\ geocoded = NoGeocode
    /\ response = NoResponse
    /\ collection = NoCollection
    /\ rooftops_old = NoTable
    /\ backups = <<>>
    /\ swap = NoSwap
    /\ total = NoTotal

NextRoute == GeocodeRequest \/ EndGeocodeRequest

SpecRoute == InitRoute /\ [][NextRoute]_vars

-----------------------------------------------------------------------------
(* The volume formulas: calculate_predicted_collection of the rainfall     *)
(* estimator and compute_rain of processing/rain_calc.py, applied to       *)
(* inputs of the caller's choice.                                          *)

\* processing/rain_calc.py, line 3
RAIN_CALC_RUNOFF_COEFF == Frac(9, 10)

\* processing/rain_calc.py, lines 5-8
compute_rain(area_m2, rainfall_mm) ==
    LET rainfall_m == Div(rainfall_mm, Float(1000))
    IN Mul(Mul(Mul(Float(area_m2), rainfall_m), RAIN_CALC_RUNOFF_COEFF),
           Float(1000))

\* Rainfall amounts: NaN, a negative, zero, a whole and a fractional number.
Rainfalls == {NaN, Float(0 - 1), Float(0), Float(2), Frac(5, 2)}

\* A dict year -> rainfall_mm in insertion order: no year twice.
PredictedRainfalls ==
    {d \in SeqsUpTo([year : FirstYear..(FirstYear + MaxAhead - 1),
                     rainfall_mm : Rainfalls], MaxAhead) :
        \A i, j \in 1..Len(d) : d[i].year = d[j].year => i = j}

CalculatePredictedCollection ==
    /\ ~collection.called
    /\ \E building_area_m2 \in Areas, predicted_rainfall \in PredictedRainfalls :
          collection' = [called |-> TRUE,
                         fn |-> "calculate_predicted_collection",
                         area |-> building_area_m2,
                         rainfall |-> predicted_rainfall,
                         result |-> calculate_predicted_collection(
                                        building_area_m2, predicted_rainfall)]
    /\ UNCHANGED <<db_exists, rooftops_table, rooftops, nearest,
                   csv_exists, weather_csv, annual, forecast,
                   api_key, geocoded, response,
                   rooftops_old, backups, swap, total>>

ComputeRain ==
    /\ ~collection.called
    /\ \E area_m2 \in Areas, rainfall_mm \in Rainfalls :
          collection' = [called |-> TRUE, fn |-> "compute_rain",
                         area |-> area_m2, rainfall |-> rainfall_mm,
                         result |-> compute_rain(area_m2, rainfall_mm)]
    /\ UNCHANGED <<db_exists, rooftops_table, rooftops, nearest,
                   csv_exists, weather_csv, annual, forecast,
                   api_key, geocoded, response,
                   rooftops_old, backups, swap, total>>

\* The caller has taken the outcome; the next call starts afresh.
EndCollection ==
    /\ collection.called
    /\ collection' = NoCollection
    /\ UNCHANGED <<db_exists, rooftops_table, rooftops, nearest,
                   csv_exists, weather_csv, annual, forecast,
                   api_key, geocoded, response,
                   rooftops_old, backups, swap, total>>

InitCollection ==
    /\ db_exists = TRUE
    /\ rooftops_table = TRUE
    /\ rooftops = <<>>
    /\ nearest = NoCall
    /\ csv_exists = TRUE
    /\ weather_csv = <<>>
    /\ annual = NoAnnual
    /\ forecast = NoForecast
    /\ api_key = TRUE
    /\ geocoded = NoGeocode
    /\ response = NoResponse
    /\ collection = NoCollection
    /\ rooftops_old = NoTable
    /\ backups = <<>>
    /\ swap = NoSwap
    /\ total = NoTotal

NextCollection == CalculatePredictedCollection \/ ComputeRain \/ EndCollection

SpecCollection == InitCollection /\ [][NextCollection]_vars

-----------------------------------------------------------------------------
(* swap_coords_if_needed.py: the script that exchanges the easting and     *)
(* northing columns of rooftops when they look swapped.  Every statement   *)
(* that changes the database is followed by conn.commit(), so the run is a *)
(* sequence of steps, between which the process may be interrupted and a   *)
(* request may scan the table.                                             *)

SWAP_THRESHOLD == 300000   \* median_easting < 300000 and median_northing > 300000
SAMPLE_LIMIT == 1000       \* SELECT easting, northing FROM rooftops LIMIT 1000
MaxRuns == 2               \* runs of the script
MaxSwapRows == 2           \* rows in the rooftops table the script inspects

\* Coordinates around the threshold of the heuristic.
SwapCoords == {SWAP_THRESHOLD - 1, SWAP_THRESHOLD, SWAP_THRESHOLD + 1}

\* Rows of the table the script inspects; it reads the two coordinates and
\* copies the area, here one value.
SwapRows ==
    [easting : {NULL} \cup {Num(x) : x \in SwapCoords},
     northing : {NULL} \cup {Num(x) : x \in SwapCoords},
     area : {Num(10)}]

\* The first n elements of a sequence: LIMIT n.
Take(q, n) == SubSeq(q, 1, IF Len(q) < n THEN Len(q) ELSE n)

\* sorted(xs)[(len(xs) - 1)//2]: the lower of the two middle values.
Median_Lower(xs) == SortedSeq(xs)[(Len(xs) - 1) \div 2 + 1]

\* sorted(xs)[len(xs)//2], lines 31-32
Median(xs) == SortedSeq(xs)[Len(xs) \div 2 + 1]

\* The heuristic with "or" for "and".
SwapDetected_Either(median_easting, median_northing) ==
    median_easting < SWAP_THRESHOLD \/ median_northing > SWAP_THRESHOLD

\* Line 40
SwapDetected(median_easting, median_northing) ==
    median_easting < SWAP_THRESHOLD /\ median_northing > SWAP_THRESHOLD

\* Lines 29-45 on the sampled rows.  None among the values makes sorted()
\* raise TypeError when it has two values to compare, and the comparison
\* of line 40 when it reaches a None median.
Inspection(sample) ==
    LET eastings == [i \in 1..Len(sample) |-> sample[i].easting]
        northings == [i \in 1..Len(sample) |-> sample[i].northing]
        values(cells) == [i \in 1..Len(cells) |-> cells[i].v]
        unsortable(cells) ==
            Len(cells) >= 2 /\ \E i \in 1..Len(cells) : cells[i].null
    IN IF sample = <<>> THEN "No rooftops rows"
       ELSE IF unsortable(eastings) \/ unsortable(northings) THEN "TypeError"
       ELSE IF eastings[1].null THEN "TypeError"
       ELSE IF ~(Median(values(eastings)) < SWAP_THRESHOLD) THEN "No swap detected"
       ELSE IF northings[1].null THEN "TypeError"
       ELSE IF SwapDetected(Median(values(eastings)), Median(values(northings)))
       THEN "Swap detected"
       ELSE "No swap detected"

\* Lines 7-27: the checks before the sample is inspected.
Preparation(exists, has_table, rows) ==
    IF ~exists THEN "Database not found"
    ELSE IF ~has_table THEN "OperationalError"
    ELSE Inspection(Take(rows, SAMPLE_LIMIT))

\* SELECT northing, easting, area without the exchange.
SwappedRow_Unchanged(row) == row

\* Line 67: SELECT northing, easting, area FROM rooftops_old
SwappedRow(row) ==
    [easting |-> row.northing, northing |-> row.easting, area |-> row.area]

SwappedRows(rows) == [i \in 1..Len(rows) |-> SwappedRow(rows[i])]

\* shutil.copy2(DB_PATH, backup_path): the tables of the file as they are.
DatabaseCopy ==
    [rooftops_table |-> rooftops_table, rooftops |-> rooftops,
     rooftops_old |-> rooftops_old]

\* The run ends: the finally clause closes the connection.
Exit(outcome) ==
    [swap EXCEPT !.pc = "idle", !.exits = Append(@, outcome)]

\* Lines 7-47: a run starts, looks at the sample and either ends or goes
\* on to the swap.
Inspect ==
    /\ swap.pc = "idle"
    /\ Len(swap.exits) < MaxRuns
    /\ LET outcome == Preparation(db_exists, rooftops_table, rooftops)
       IN swap' = IF outcome = "Swap detected"
                  THEN [swap EXCEPT !.pc = "detected"]
                  ELSE Exit(outcome)
    /\ UNCHANGED <<db_exists, rooftops_table, rooftops, nearest,
                   csv_exists, weather_csv, annual, forecast,
                   api_key, geocoded, response,
                   collection, rooftops_old, backups, total>>

\* The run going on to the swap without copying the file.
Backup_NoCopy ==
    /\ swap.pc = "detected"
    /\ swap' = [swap EXCEPT !.pc = "backed up"]
    /\ UNCHANGED <<db_exists, rooftops_table, rooftops, nearest,
                   csv_exists, weather_csv, annual, forecast,
                   api_key, geocoded, response,
                   collection, rooftops_old, backups, total>>

\* Lines 50-53
Backup ==
    /\ swap.pc = "detected"
    /\ backups' = Append(backups, DatabaseCopy)
    /\ swap' = [swap EXCEPT !.pc = "backed up"]
    /\ UNCHANGED <<db_exists, rooftops_table, rooftops, nearest,
                   csv_exists, weather_csv, annual, forecast,
                   api_key, geocoded, response,
                   collection, rooftops_old, total>>

\* Lines 56-57: PRAGMA foreign_keys = OFF sets the connection, not the file.
Pragma ==
    /\ swap.pc = "backed up"
    /\ swap' = [swap EXCEPT !.pc = "pragma"]
    /\ UNCHANGED <<db_exists, rooftops_table, rooftops, nearest,
                   csv_exists, weather_csv, annual, forecast,
                   api_key, geocoded, response,
                   collection, rooftops_old, backups, total>>

\* Lines 59-60: ALTER TABLE rooftops RENAME TO rooftops_old, which fails
\* when a table of that name exists.
RenameTable ==
    /\ swap.pc = "pragma"
    /\ IF rooftops_old.exists
       THEN /\ swap' = Exit("OperationalError")
            /\ UNCHANGED <<rooftops_table, rooftops, rooftops_old>>
       ELSE /\ rooftops_old' = [exists |-> TRUE, rows |-> rooftops]
            /\ rooftops_table' = FALSE
            /\ rooftops' = <<>>
            /\ swap' = [swap EXCEPT !.pc = "renamed"]
    /\ UNCHANGED <<db_exists, nearest,
                   csv_exists, weather_csv, annual, forecast,
                   api_key, geocoded, response,
                   collection, backups, total>>

\* Lines 63-64: CREATE TABLE rooftops (easting REAL, northing REAL, area REAL)
CreateTable ==
    /\ swap.pc = "renamed"
    /\ rooftops_table' = TRUE
    /\ rooftops' = <<>>
    /\ swap' = [swap EXCEPT !.pc = "created"]
    /\ UNCHANGED <<db_exists, nearest,
                   csv_exists, weather_csv, annual, forecast,
                   api_key, geocoded, response,
                   collection, rooftops_old, backups, total>>

\* Lines 67-68: INSERT INTO rooftops ... SELECT ... FROM rooftops_old
InsertSwapped ==
    /\ swap.pc = "created"
    /\ rooftops' = rooftops \o SwappedRows(rooftops_old.rows)
    /\ swap' = [swap EXCEPT !.pc = "inserted"]
    /\ UNCHANGED <<db_exists, rooftops_table, nearest,
                   csv_exists, weather_csv, annual, forecast,
                   api_key, geocoded, response,
                   collection, rooftops_old, backups, total>>

\* Lines 71-77: DROP TABLE rooftops_old, and the run ends.
DropOld ==
    /\ swap.pc = "inserted"
    /\ rooftops_old' = NoTable
    /\ swap' = Exit("Swap completed")
    /\ UNCHANGED <<db_exists, rooftops_table, rooftops, nearest,
                   csv_exists, weather_csv, annual, forecast,
                   api_key, geocoded, response,
                   collection, backups, total>>

\* The process is killed between two steps; what was committed stays.
Interrupt ==
    /\ swap.pc \notin {"idle", "none"}
    /\ swap' = Exit("interrupted")
    /\ UNCHANGED <<db_exists, rooftops_table, rooftops, nearest,
                   csv_exists, weather_csv, annual, forecast,
                   api_key, geocoded, response,
                   collection, rooftops_old, backups, total>>

\* A request scans the table, at any moment of a run or between runs.
ScanRooftops ==
    /\ ~nearest.called
    /\ \E easting \in SwapCoords, northing \in SwapCoords :
          LET result == find_nearest_building(db_exists, rooftops_table,
                                              rooftops, easting, northing)
          IN nearest' = [called |-> TRUE, easting |-> easting,
                         northing |-> northing, result |-> result,
                         connection |-> ConnectionEvents(db_exists, result)]
    /\ UNCHANGED <<db_exists, rooftops_table, rooftops,
                   csv_exists, weather_csv, annual, forecast,
                   api_key, geocoded, response,
                   collection, rooftops_old, backups, swap, total>>

\* The database before the first run: rooftops of at most 2 rows, kept in
\* swap.original for reference, and no rooftops_old.
InitSwap ==
    /\ db_exists \in BOOLEAN
    /\ rooftops_table \in BOOLEAN
    /\ rooftops \in SeqsUpTo(SwapRows, MaxSwapRows)
    /\ (~db_exists => ~rooftops_table)
    /\ (~rooftops_table => rooftops = <<>>)
    /\ nearest = NoCall
    /\ csv_exists = TRUE
    /\ weather_csv = <<>>
    /\ annual = NoAnnual
    /\ forecast = NoForecast
    /\ api_key = TRUE
    /\ geocoded = NoGeocode
    /\ response = NoResponse
    /\ collection = NoCollection
    /\ rooftops_old = NoTable
    /\ backups = <<>>
    /\ swap = [pc |-> "idle", exits |-> <<>>, original |-> rooftops]
    /\ total = NoTotal

NextSwap ==
    \/ Inspect \/ Backup \/ Pragma \/ RenameTable \/ CreateTable
    \/ InsertSwapped \/ DropOld \/ Interrupt
    \/ ScanRooftops \/ EndFindNearestBuilding

SpecSwap == InitSwap /\ [][NextSwap]_vars

-----------------------------------------------------------------------------
(* app.py, route /total, and processing/rooftops.py *)

TOTAL_RAINFALL_MM == 1200
TOTAL_EFFICIENCY == Frac(85, 100)

\* The coordinate columns of the rooftops table of the database file: the
\* ones building_service.py reads, or the ones load_rooftops selects.
Schemas == {"easting, northing, area", "lat, lon, area"}

\* sqlite3.connect(database_path): opens the file, creating it when only
\* the file is missing; fails when it cannot be opened or created.
CanConnect(exists, data_dir) == exists \/ data_dir

\* pd.read_sql_query("SELECT lat, lon, area FROM rooftops", conn) succeeds
\* when the table exists and has the selected columns.
QuerySucceeds(exists, has_table, schema) ==
    exists /\ has_table /\ schema = "lat, lon, area"

\* load_rooftops: the frame read, or an empty frame on any exception of the
\* try block; the connection is closed in both cases. The connect stands
\* before the try block.
load_rooftops(exists, data_dir, has_table, schema, rows) ==
    IF ~CanConnect(exists, data_dir)
    THEN [status |-> "raise", type |-> "OperationalError", frame |-> <<>>,
          connection |-> <<>>]
    ELSE [status |-> "ok", type |-> "",
          frame |-> IF QuerySucceeds(exists, has_table, schema)
                    THEN rows ELSE <<>>,
          connection |-> <<"connect", "close">>]

\* rooftops["area"].sum(): NULL areas are skipped.
RECURSIVE AreaSum(_, _)
AreaSum(frame, k) ==
    IF k = 0 THEN Float(0)
    ELSE IF frame[k].area.null THEN AreaSum(frame, k - 1)
    ELSE Add(AreaSum(frame, k - 1), Float(frame[k].area.v))

\* The body of total() after load_rooftops has returned.
TotalPayload(frame) ==
    IF frame = <<>>
    THEN [total_liters |-> Float(0), error |-> "No rooftop data available"]
    ELSE [total_liters |-> Mul(Mul(AreaSum(frame, Len(frame)),
                                   Float(TOTAL_RAINFALL_MM)), TOTAL_EFFICIENCY),
          rooftop_count |-> Len(frame),
          total_area_m2 |-> AreaSum(frame, Len(frame)),
          rainfall_mm |-> TOTAL_RAINFALL_MM,
          efficiency |-> TOTAL_EFFICIENCY]

\* GET /total: an exception leaving the view is answered by Flask with 500.
Total ==
    /\ ~total.called
    /\ \E data_dir \in (IF db_exists THEN {TRUE} ELSE BOOLEAN), schema \in Schemas :
         LET loaded == load_rooftops(db_exists, data_dir, rooftops_table,
                                     schema, rooftops)
         IN /\ total' = [called |-> TRUE, data_dir |-> data_dir,
                         schema |-> schema, loaded |-> loaded,
                         code |-> IF loaded.status = "ok" THEN 200 ELSE 500,
                         payload |-> IF loaded.status = "ok"
                                     THEN TotalPayload(loaded.frame)
                                     ELSE [error |-> loaded.type]]
            /\ db_exists' = CanConnect(db_exists, data_dir)
    /\ UNCHANGED <<rooftops_table, rooftops, nearest,
                   csv_exists, weather_csv, annual, forecast,
                   api_key, geocoded, response, collection,
                   rooftops_old, backups, swap>>

EndTotal ==
    /\ total.called
    /\ total' = NoTotal
    /\ UNCHANGED <<db_exists, rooftops_table, rooftops, nearest,
                   csv_exists, weather_csv, annual, forecast,
                   api_key, geocoded, response, collection,
                   rooftops_old, backups, swap>>

InitTotal ==
    /\ db_exists \in BOOLEAN
    /\ rooftops_table \in BOOLEAN
    /\ rooftops \in SeqsUpTo(Rows, MaxRows)
    /\ (~db_exists => ~rooftops_table)
    /\ (~rooftops_table => rooftops = <<>>)
    /\ nearest = NoCall
    /\ csv_exists = TRUE
    /\ weather_csv = <<>>
    /\ annual = NoAnnual
    /\ forecast = NoForecast
    /\ api_key = TRUE
    /\ geocoded = NoGeocode
    /\ response = NoResponse
    /\ collection = NoCollection
    /\ rooftops_old = NoTable
    /\ backups = <<>>
    /\ swap = NoSwap
    /\ total = NoTotal

NextTotal == Total \/ EndTotal

SpecTotal == InitTotal /\ [][NextTotal]_vars

-----------------------------------------------------------------------------
(* Claims about the building locator, checked under SpecBuilding *)

\* The square of the planar Euclidean distance from the query point to row i.
SquaredDistance(i) ==
    (nearest.easting - rooftops[i].easting.v) * (nearest.easting - rooftops[i].easting.v)
    + (nearest.northing - rooftops[i].northing.v) * (nearest.northing - rooftops[i].northing.v)

\* The first row, in scan order, at the minimum distance from the query point.
FirstNearestRow ==
    CHOOSE i \in 1..Len(rooftops) :
        /\ \A j \in 1..Len(rooftops) : SquaredDistance(i) <= SquaredDistance(j)
        /\ \A j \in 1..(i - 1) : SquaredDistance(j) > SquaredDistance(i)

ScannedTable ==
    nearest.called /\ db_exists /\ rooftops_table /\ rooftops # <<>>

\* C1: for every non-empty rooftops table and every query point, the call
\* returns the area of a row whose distance to the query point is at most
\* that of every other row, and the returned distance is that minimum.
C1_ReturnsNearest ==
    ScannedTable =>
        /\ nearest.result.status = "ok"
        /\ \E i \in 1..Len(rooftops) :
              /\ \A j \in 1..Len(rooftops) : SquaredDistance(i) <= SquaredDistance(j)
              /\ nearest.result.area = rooftops[i].area
              /\ nearest.result.distance
                    = Sqrt(SquaredDistance(i) * DistDigits * DistDigits)

\* C2: when the rooftops table exists and has no rows, the call raises
\* BuildingNotFoundError and returns no result, for every query point.
C2_EmptyTableNotFound ==
    (nearest.called /\ db_exists /\ rooftops_table /\ rooftops = <<>>) =>
        /\ nearest.result.status = "BuildingNotFoundError"
        /\ nearest.result.area = NULL

C2_Witness ==
    /\ nearest.called /\ db_exists /\ rooftops_table /\ rooftops = <<>>
    /\ nearest.easting = MaxCoord
    /\ nearest.result.status = "BuildingNotFoundError"

-----------------------------------------------------------------------------
(* Claims about the rainfall estimator *)

\* The calendar year a date YYYYMMDD falls in.
CalendarYear(date) ==
    CHOOSE y \in FirstYear..(FirstYear + MaxYears) :
        Date(y, 101) <= date /\ date <= Date(y, 1231)

\* The calendar years present in the weather file, and the latest of them.
YearsPresent == {CalendarYear(weather_csv[i].date) : i \in 1..Len(weather_csv)}
LatestYear == CHOOSE y \in YearsPresent : \A z \in YearsPresent : z <= y

\* The precipitation of a cell, a missing or non-numeric one counting as 0.
Millimetres(cell) == IF cell.kind = "num" THEN cell.v ELSE 0

\* The sum of the daily precipitation of the rows with index in I.
RECURSIVE DailySum(_)
DailySum(I) ==
    IF I = {} THEN 0
    ELSE LET i == CHOOSE i \in I : TRUE
         IN Millimetres(weather_csv[i].precipitation) + DailySum(I \ {i})

AnnualTotal(y) ==
    DailySum({i \in 1..Len(weather_csv) : CalendarYear(weather_csv[i].date) = y})

\* The sum of the annual totals of the years in Y.
RECURSIVE TotalOver(_)
TotalOver(Y) ==
    IF Y = {} THEN 0
    ELSE LET y == CHOOSE y \in Y : TRUE IN AnnualTotal(y) + TotalOver(Y \ {y})

Forecasted == forecast.called /\ csv_exists

\* C4 as claimed: the regression is trained and used whenever the history
\* holds at least 3 distinct years, and the fallback path is taken only
\* when it holds fewer than 3.
C4_ModelFromThreeYears ==
    Forecasted =>
        (forecast.result.path = "model" <=> Cardinality(YearsPresent) >= 3)

\* C4 as amended: the regression is trained and used exactly when the
\* history holds at least 5 distinct years, which leave at least 3 samples
\* once the 2 first years, lacking a lag-2 value, are dropped; with fewer
\* than 5 years the fallback path is taken.
C4_ModelFromFiveYears ==
    Forecasted =>
        /\ forecast.result.path = "model" <=> Cardinality(YearsPresent) >= 5
        /\ forecast.result.path = "fallback" <=> Cardinality(YearsPresent) < 5

C4_Witness ==
    /\ Forecasted
    /\ Cardinality(YearsPresent) = 5
    /\ forecast.years_ahead = MaxAhead
    /\ forecast.result.path = "model"
    /\ forecast.result.status = "ok"

\* C5: on the fallback path every predicted value equals the historical
\* mean: the arithmetic mean of the annual totals of all the years present
\* in the weather history.
C5_FallbackRepeatsHistoricalMean ==
    (Forecasted /\ forecast.result.status = "ok"
        /\ forecast.result.path = "fallback") =>
        \A k \in 1..Len(forecast.result.predictions) :
            /\ ~forecast.result.predictions[k].rainfall_mm.nan
            /\ forecast.result.predictions[k].rainfall_mm
                  = Frac(TotalOver(YearsPresent), Cardinality(YearsPresent))

\* C6: for a history covering exactly one calendar year and years_ahead =
\* N >= 1 the call falls back and returns N predictions, each the total of
\* that year, without raising.
C6_SingleYearFallsBack ==
    (Forecasted /\ Cardinality(YearsPresent) = 1 /\ forecast.years_ahead >= 1) =>
        /\ forecast.result.status = "ok"
        /\ forecast.result.path = "fallback"
        /\ Len(forecast.result.predictions) = forecast.years_ahead
        /\ \A k \in 1..Len(forecast.result.predictions) :
              forecast.result.predictions[k].rainfall_mm
                  = Float(AnnualTotal(LatestYear))

\* C7: every rainfall value the call returns is greater than or equal to
\* zero, on the model path and on the fallback path alike.
C7_NeverNegative ==
    (Forecasted /\ forecast.result.status = "ok") =>
        \A k \in 1..Len(forecast.result.predictions) :
            /\ ~forecast.result.predictions[k].rainfall_mm.nan
            /\ forecast.result.predictions[k].rainfall_mm.num >= 0

\* C8: for years_ahead = N >= 0 and a history whose latest year is Y the
\* call returns exactly N entries, keyed by Y+1, ..., Y+N, on both paths.
C8_NextYearsKeyed ==
    (Forecasted /\ YearsPresent # {}) =>
        /\ forecast.result.status = "ok"
        /\ Len(forecast.result.predictions) = forecast.years_ahead
        /\ \A k \in 1..Len(forecast.result.predictions) :
              forecast.result.predictions[k].year = LatestYear + k

\* C9: the first step of the recursive forecast uses the last observed
\* annual total as lag-1 and the one before it as lag-2; in every later
\* step k+1 the lag-1 feature is the prediction reported for step k and
\* the lag-2 feature is the lag-1 feature of step k.
C9_PredictionsFedBack ==
    (Forecasted /\ forecast.result.status = "ok"
        /\ forecast.result.path = "model") =>
        LET f == forecast.result.features
            p == forecast.result.predictions
        IN /\ Len(f) >= 1 =>
                /\ f[1].lag1 = Float(AnnualTotal(LatestYear))
                /\ f[1].lag2 = Float(AnnualTotal(
                        CHOOSE y \in YearsPresent \ {LatestYear} :
                            \A z \in YearsPresent \ {LatestYear} : z <= y))
           /\ \A k \in 1..(Len(f) - 1) :
                /\ f[k + 1].lag1 = p[k].rainfall_mm
                /\ f[k + 1].lag2 = f[k].lag1

\* C10: the historical path reports exactly one annual_data entry for each
\* calendar year present in the weather data, its rainfall_mm the sum of
\* that year's daily precipitation with missing and non-numeric values
\* counted as 0, and years_available lists exactly these years, ascending.
C10_OneEntryPerYear ==
    (annual.called /\ csv_exists) =>
        LET data == annual.result.annual_data
            years == annual.result.years_available
        IN /\ annual.result.status = "ok"
           /\ \A y \in YearsPresent :
                 Cardinality({j \in 1..Len(data) : data[j].year = y}) = 1
           /\ \A j \in 1..Len(data) :
                 /\ data[j].year \in YearsPresent
                 /\ data[j].rainfall_mm = Float(AnnualTotal(data[j].year))
           /\ {years[j] : j \in 1..Len(years)} = YearsPresent
           /\ Len(years) = Cardinality(YearsPresent)
           /\ \A j \in 1..(Len(years) - 1) : years[j] < years[j + 1]

C10_Witness ==
    /\ annual.called /\ csv_exists
    /\ Len(weather_csv) = 2
    /\ weather_csv[1] = [date |-> Date(FirstYear + 1, 101), precipitation |-> TextCell]
    /\ weather_csv[2] = [date |-> Date(FirstYear, 1231), precipitation |-> NumCell(2)]
    /\ annual.result.status = "ok"
    /\ annual.result.years_available = <<FirstYear, FirstYear + 1>>
    /\ annual.result.annual_data[1].rainfall_mm = Float(2)
    /\ annual.result.annual_data[2].rainfall_mm = Float(0)

\* The sum of the collection_liters values of the first k reported years.
RECURSIVE SumOfReported(_, _)
SumOfReported(data, k) ==
    IF k = 0 THEN Float(0)
    ELSE Add(SumOfReported(data, k - 1), data[k].collection_liters)

\* C11: for every year of the history collection_liters equals
\* building_area_m2 x rainfall_mm x 0.9 (the mm-to-m and m3-to-litre
\* factors cancel), and average_annual_collection_liters equals
\* building_area_m2 x (mean of the annual totals) x 0.9, which is the
\* arithmetic mean of the per-year collection_liters values; with no year
\* in the history there is no mean and the average is NaN.
C11_CollectionProportional ==
    (annual.called /\ annual.result.status = "ok") =>
        LET data == annual.result.annual_data
            area == annual.building_area_m2
            n == Cardinality(YearsPresent)
            average == annual.result.average_annual_collection_liters
        IN /\ \A j \in 1..Len(data) :
                 /\ data[j].collection_liters
                       = Frac(area * AnnualTotal(data[j].year) * 9, 10)
                 /\ data[j].collection_liters
                       = Mul(Mul(Float(area), data[j].rainfall_mm), Frac(9, 10))
           /\ average.nan <=> n = 0
           /\ n > 0 =>
                 /\ average = Frac(area * TotalOver(YearsPresent) * 9, 10 * n)
                 /\ average = Div(SumOfReported(data, Len(data)), Float(Len(data)))

C11_Witness ==
    /\ annual.called /\ annual.result.status = "ok"
    /\ annual.building_area_m2 = 20
    /\ Len(annual.result.annual_data) = 2
    /\ annual.result.annual_data[1].rainfall_mm = Float(2)
    /\ annual.result.annual_data[1].collection_liters = Float(36)
    /\ annual.result.annual_data[2].rainfall_mm = Float(0 - 1)
    /\ annual.result.annual_data[2].collection_liters = Float(0 - 18)
    /\ annual.result.average_annual_collection_liters = Float(9)

-----------------------------------------------------------------------------
(* Claims about the geocoder, checked under SpecGeocoder *)

\* C15: geocode_address either returns an (easting, northing) pair or
\* raises GeocodingError: every failure to geocode, whether the address is
\* not found or the call of the API errors, is reported as GeocodingError
\* and as no other exception type.
C15_OnlyGeocodingError ==
    geocoded.called => geocoded.result.status \in {"ok", "GeocodingError"}

\* C18: geocode_address takes the location of the first result of the API,
\* passes it to the transformer in (longitude, latitude) order and returns
\* the transformer's output unchanged as (easting, northing).
C18_FirstResultLongitudeFirst ==
    (geocoded.called /\ geocoded.result.status = "ok") =>
        LET location == geocoded.answer.json.results[1]
        IN <<geocoded.result.easting, geocoded.result.northing>>
              = Transform(location.lng, location.lat)

C18_Witness ==
    /\ geocoded.called /\ geocoded.result.status = "ok"
    /\ geocoded.answer.json.results = <<Location(51, 0 - 1), Location(52, 0)>>
    /\ geocoded.result.easting = 47
    /\ geocoded.result.northing = 12

-----------------------------------------------------------------------------
(* Claims about POST /api/geocode, checked under SpecRoute *)

SuccessKeys ==
    {"address", "easting", "northing", "building_area",
     "annual_rainfall_collection", "predicted_rainfall"}

\* The body is a JSON object holding a non-empty string under "address".
HasAddress(body) ==
    /\ body.json = "object" /\ body.has_address
    /\ body.address.is_str /\ body.address.text # ""

\* The stages the handler invoked, in order, and how the request ended.
Stages == [k \in 1..Len(response.result.trace) |-> response.result.trace[k].stage]
Outcome(k) == response.result.trace[k].outcome
ErrorAnswer(status_code, error) ==
    /\ response.result.raised = ""
    /\ response.result.status_code = status_code
    /\ response.result.keys = {"error"}
    /\ response.result.error = error

\* C12: for every POST to /api/geocode, whatever its body, the handler
\* returns either status 200 with a JSON object containing address,
\* easting, northing, building_area, annual_rainfall_collection and
\* predicted_rainfall, or a JSON object with an "error" field and a 4xx or
\* 5xx status; no exception escapes the handler.
C12_AlwaysJsonAnswer ==
    response.called =>
        /\ response.result.raised = ""
        /\ \/ /\ response.result.status_code = 200
              /\ SuccessKeys \subseteq response.result.keys
           \/ /\ "error" \in response.result.keys
              /\ response.result.status_code \in 400..599

\* C13: when the request body has no "address", or the address is empty or
\* not a string, the handler returns 400 with error "address is required"
\* and invokes neither the geocoder, the building locator nor the rainfall
\* estimator.
C13_AddressRequired ==
    (response.called /\ ~HasAddress(response.body)) =>
        /\ ErrorAnswer(400, "address is required")
        /\ Stages = <<>>

\* C14: a GeocodingError from the geocoder (address not found, non-OK API
\* status, or non-200 HTTP status of the API) yields 400 with error "Invalid
\* address", and every other exception from the geocoder (the RuntimeError
\* for a missing API key included) yields 500 with error "Internal server
\* error"; in both cases no later stage runs.
C14_GeocoderErrorsMapped ==
    (response.called /\ HasAddress(response.body)) =>
        LET a == response.answer
            refused == /\ api_key /\ a.raises = ""
                       /\ \/ a.status_code # 200
                          \/ /\ a.json.valid
                             /\ a.json.status # "OK" \/ a.json.results = <<>>
        IN /\ Len(Stages) >= 1 /\ Stages[1] = "geocode"
           /\ refused => Outcome(1) = "GeocodingError"
           /\ ~api_key => Outcome(1) = "RuntimeError"
           /\ Outcome(1) = "GeocodingError" =>
                 ErrorAnswer(400, "Invalid address") /\ Stages = <<"geocode">>
           /\ Outcome(1) \notin {"ok", "GeocodingError"} =>
                 ErrorAnswer(500, "Internal server error") /\ Stages = <<"geocode">>

C14_Witness ==
    /\ response.called /\ HasAddress(response.body) /\ api_key
    /\ response.answer = Answered(200, Json("ZERO_RESULTS", <<>>))
    /\ response.result.status_code = 400
    /\ response.result.error = "Invalid address"
    /\ rooftops # <<>> /\ Len(weather_csv) = MaxYears

\* C16: no request-time operation changes the rooftops table or the weather
\* data: the contents of both are the same after any sequence of requests
\* as before it.
C16_ReferenceDataUnchanged ==
    [][/\ db_exists' = db_exists
       /\ rooftops_table' = rooftops_table
       /\ rooftops' = rooftops
       /\ csv_exists' = csv_exists
       /\ weather_csv' = weather_csv]_vars

C16_Witness ==
    /\ response.called
    /\ response.result.status_code = 200
    /\ Stages = <<"geocode", "locate", "historical", "prediction">>
    /\ rooftops # <<>> /\ weather_csv # <<>>

\* C19: within one request the stages run in the fixed order geocode,
\* locate building, historical collection, prediction; each stage is
\* invoked at most once, a stage is invoked only after every earlier stage
\* succeeded, and a 200 response is produced only after all four succeeded.
C19_StagesInOrder ==
    response.called =>
        LET order == <<"geocode", "locate", "historical", "prediction">>
        IN /\ Len(Stages) <= 4
           /\ \A k \in 1..Len(Stages) : Stages[k] = order[k]
           /\ \A k \in 1..(Len(Stages) - 1) : Outcome(k) = "ok"
           /\ response.result.status_code = 200 =>
                 /\ Stages = order
                 /\ \A k \in 1..4 : Outcome(k) = "ok"

C19_Witness ==
    /\ response.called
    /\ response.result.status_code = 200
    /\ Len(response.result.trace) = 4
    /\ Len(response.result.payload.predicted_rainfall) = RouteYearsAhead
    /\ response.result.payload.building_area = 20

\* C20: a BuildingNotFoundError from the locator yields 500 with error "No
\* buildings found in database", any other locator exception yields 500
\* with an "Error finding building" message, and an exception in the
\* historical or the prediction stage yields 500 with an error message
\* naming that stage; none of these cases returns a partial success payload.
C20_LaterErrorsMapped ==
    (response.called /\ Len(Stages) >= 2 /\ Outcome(Len(Stages)) # "ok") =>
        LET last == Len(Stages)
        IN /\ response.result.payload = <<>>
           /\ response.result.keys \cap SuccessKeys = {}
           /\ (Stages[last] = "locate" /\ Outcome(last) = "BuildingNotFoundError")
                 => ErrorAnswer(500, "No buildings found in database")
           /\ (Stages[last] = "locate" /\ Outcome(last) # "BuildingNotFoundError")
                 => ErrorAnswer(500, "Error finding building")
           /\ Stages[last] = "historical"
                 => ErrorAnswer(500, "Error calculating annual rainfall")
           /\ Stages[last] = "prediction"
                 => ErrorAnswer(500, "Error predicting future rainfall")

C20_Witness ==
    /\ response.called
    /\ Stages = <<"geocode", "locate", "historical", "prediction">>
    /\ Outcome(3) = "ok" /\ Outcome(4) = "ValueError"
    /\ response.result.status_code = 500
    /\ response.result.error = "Error predicting future rainfall"
    /\ response.result.detail = "ValueError"

-----------------------------------------------------------------------------
(* Further claims about the building locator, checked under SpecBuilding *)

\* C21: whenever the database file exists and the rooftops table has at
\* least one row, find_nearest_building returns a result, whatever the
\* values stored in the rows (a NULL area on the nearest row included): it
\* raises BuildingNotFoundError only when the table is empty, the file is
\* missing or the query fails.
C21_NonEmptyTableAnswers ==
    /\ (nearest.called /\ db_exists /\ rooftops_table /\ Len(rooftops) >= 1)
          => nearest.result.status = "ok"
    /\ (nearest.called /\ nearest.result.status = "BuildingNotFoundError")
          => (~db_exists \/ ~rooftops_table \/ rooftops = <<>>)

\* The connections open after the first k events of the call.
OpenAfter(k) ==
    Cardinality({j \in 1..k : nearest.connection[j] = "connect"})
        - Cardinality({j \in 1..k : nearest.connection[j] = "close"})

\* C22: find_nearest_building opens a database connection only after it
\* has established that the database file exists, and that connection is
\* closed on every exit path (normal return, BuildingNotFoundError, sqlite
\* error, any other exception): no connection remains open after the call.
C22_ConnectionClosed ==
    nearest.called =>
        LET events == nearest.connection
        IN /\ (\E j \in 1..Len(events) : events[j] = "connect") => db_exists
           /\ db_exists => events[1] = "connect"
           /\ \A k \in 1..Len(events) : OpenAfter(k) \in {0, 1}
           /\ OpenAfter(Len(events)) = 0
           /\ events[Len(events)] =
                 IF nearest.result.status = "ok" THEN "return" ELSE "raise"

C22_Witness ==
    /\ nearest.called /\ db_exists /\ rooftops_table
    /\ NullCoordinate(rooftops)
    /\ nearest.result.status = "TypeError"
    /\ nearest.connection = <<"connect", "close", "raise">>

\* C23: a storage failure in find_nearest_building, either a database file
\* found neither at the given path nor at the alternative path, or any
\* sqlite3.Error raised while querying, is reported to the caller as
\* BuildingNotFoundError and never as another exception type.
C23_StorageFailureNotFound ==
    (nearest.called /\ (~db_exists \/ ~rooftops_table)) =>
        /\ nearest.result.status = "BuildingNotFoundError"
        /\ nearest.result.message =
              IF db_exists THEN "Database error" ELSE "Database file not found"

C23_Witness ==
    /\ nearest.called /\ db_exists /\ ~rooftops_table
    /\ nearest.result.status = "BuildingNotFoundError"
    /\ nearest.result.message = "Database error"

-----------------------------------------------------------------------------
(* Claims about the volume formulas, checked under SpecCollection *)

\* area x mm x 0.9 as an exact quotient; NaN for a NaN rainfall.
Volume(area, mm) ==
    IF mm.nan THEN NaN ELSE Frac(area * mm.num * 9, mm.den * 10)

\* C24: calculate_predicted_collection returns exactly one entry per year
\* of its predicted-rainfall input, with predicted_rainfall_mm equal to the
\* input value and predicted_collection_liters computed by the same
\* formula as the historical path and as compute_rain (area x mm x 0.9):
\* for equal area and equal rainfall the three volumes are equal.
C24_SameVolumeFormula ==
    /\ (collection.called /\ collection.fn = "calculate_predicted_collection") =>
          LET input == collection.rainfall
              output == collection.result
          IN /\ Len(output) = Len(input)
             /\ \A k \in 1..Len(input) :
                   /\ output[k].year = input[k].year
                   /\ output[k].predicted_rainfall_mm = input[k].rainfall_mm
                   /\ output[k].predicted_collection_liters
                         = Volume(collection.area, input[k].rainfall_mm)
                   /\ output[k].predicted_collection_liters
                         = Liters(collection.area, input[k].rainfall_mm)
                   /\ output[k].predicted_collection_liters
                         = compute_rain(collection.area, input[k].rainfall_mm)
    /\ (collection.called /\ collection.fn = "compute_rain") =>
          /\ collection.result = Volume(collection.area, collection.rainfall)
          /\ collection.result = Liters(collection.area, collection.rainfall)

C24_Witness ==
    /\ collection.called /\ collection.fn = "calculate_predicted_collection"
    /\ collection.area = 20
    /\ collection.rainfall =
          <<[year |-> FirstYear + 1, rainfall_mm |-> Frac(5, 2)],
            [year |-> FirstYear, rainfall_mm |-> Float(0 - 1)]>>
    /\ collection.result[1].year = FirstYear + 1
    /\ collection.result[1].predicted_collection_liters = Float(45)
    /\ collection.result[2].predicted_collection_liters = Float(0 - 18)

-----------------------------------------------------------------------------
(* Claims about swap_coords_if_needed.py, checked under SpecSwap *)

\* The k-th smallest of the values xs, counted with repetitions.
KthSmallest(xs, k) ==
    CHOOSE m \in {xs[i] : i \in 1..Len(xs)} :
        /\ Cardinality({i \in 1..Len(xs) : xs[i] < m}) < k
        /\ Cardinality({i \in 1..Len(xs) : xs[i] <= m}) >= k

\* The rows the heuristic looks at, and whether all their coordinates are
\* numbers.
Sampled == SubSeq(rooftops, 1, IF Len(rooftops) < 1000 THEN Len(rooftops) ELSE 1000)
SampledEastings == [i \in 1..Len(Sampled) |-> Sampled[i].easting.v]
SampledNorthings == [i \in 1..Len(Sampled) |-> Sampled[i].northing.v]
SampleIsNumeric ==
    /\ db_exists /\ rooftops_table /\ Sampled # <<>>
    /\ \A i \in 1..Len(Sampled) :
          ~Sampled[i].easting.null /\ ~Sampled[i].northing.null

\* Twice the median: the sum of the two middle values, which are the same
\* value in a sample of odd size.
TwiceMedian(xs) ==
    KthSmallest(xs, (Len(xs) + 1) \div 2) + KthSmallest(xs, Len(xs) \div 2 + 1)

\* The upper of the two middle values.
UpperMedian(xs) == KthSmallest(xs, Len(xs) \div 2 + 1)

LooksSwappedByMedian ==
    /\ SampleIsNumeric
    /\ TwiceMedian(SampledEastings) < 2 * 300000
    /\ TwiceMedian(SampledNorthings) > 2 * 300000

LooksSwappedByUpperMedian ==
    /\ SampleIsNumeric
    /\ UpperMedian(SampledEastings) < 300000
    /\ UpperMedian(SampledNorthings) > 300000

\* A step of a run leaves the tables and the backups as they are.
DatabaseUntouched ==
    /\ rooftops_table' = rooftops_table
    /\ rooftops' = rooftops
    /\ rooftops_old' = rooftops_old
    /\ backups' = backups

\* What a run decides when it has looked at the sample: it goes on to the
\* swap exactly when looks_swapped, and otherwise ends having touched
\* nothing; and nothing but a run that went on to the swap touches
\* the database.
DecidesBy(looks_swapped) ==
    /\ (swap.pc = "idle" /\ swap' # swap) =>
          /\ swap'.pc = "detected" <=> looks_swapped
          /\ DatabaseUntouched
          /\ swap'.pc # "detected" => swap'.pc = "idle"
    /\ ~DatabaseUntouched =>
          swap.pc \in {"detected", "backed up", "pragma", "renamed",
                       "created", "inserted"}

\* C25 as claimed: the script modifies the database if and only if, over
\* the first at most 1000 rows of rooftops, the median easting is below
\* 300000 and the median northing is above 300000; in every other case
\* (an empty table included) it exits leaving the rooftops table unchanged
\* and creating no backup.
C25_SwapsOnMedians == [][DecidesBy(LooksSwappedByMedian)]_vars

\* C25 as amended: the two "medians" are the values at index len // 2 of
\* the sorted sample, that is the upper of the two middle values when the
\* sample has an even number of rows, and the sample holds no NULL
\* coordinate.
C25_SwapsOnUpperMedians == [][DecidesBy(LooksSwappedByUpperMedian)]_vars

C25_Witness ==
    /\ swap.pc = "detected"
    /\ Len(rooftops) = 2
    /\ rooftops[1].easting = Num(299999) /\ rooftops[2].easting = Num(299999)
    /\ rooftops[1].northing = Num(300001) /\ rooftops[2].northing = Num(299999)

\* The database is no longer what it was before the first run.
DatabaseChanged ==
    \/ rooftops # swap.original
    \/ rooftops_old.exists
    \/ ~rooftops_table /\ swap.original # <<>>

\* A backup file holds the original table, whole.
OriginalBackedUp ==
    \E k \in 1..Len(backups) :
        /\ backups[k].rooftops_table
        /\ backups[k].rooftops = swap.original
        /\ ~backups[k].rooftops_old.exists

\* C26: the backup copy of the database file is completed before the
\* first statement that changes the database runs, so at every point of
\* the swap, after an interruption following any commit included, a
\* complete copy of the original rows exists in the backup file.
C26_BackupBeforeChange ==
    (DatabaseChanged
        \/ swap.pc \in {"backed up", "pragma", "renamed", "created", "inserted"})
        => OriginalBackedUp

C26_Witness ==
    /\ swap.pc = "idle"
    /\ swap.exits = <<"interrupted">>
    /\ ~rooftops_table /\ rooftops_old.exists
    /\ Len(swap.original) = 2
    /\ OriginalBackedUp

\* C27: after a swap that runs to completion the rooftops table holds
\* exactly one row (n, e, a) for each original row (e, n, a): the number
\* of rows and every area are preserved, easting and northing are
\* exchanged in every row, and no rooftops_old table remains.
C27_EveryRowExchanged ==
    (swap.pc = "idle" /\ \E k \in 1..Len(swap.exits) : swap.exits[k] = "Swap completed")
        => /\ rooftops_table
           /\ ~rooftops_old.exists
           /\ Len(rooftops) = Len(swap.original)
           /\ \A i \in 1..Len(rooftops) :
                 /\ rooftops[i].easting = swap.original[i].northing
                 /\ rooftops[i].northing = swap.original[i].easting
                 /\ rooftops[i].area = swap.original[i].area

C27_Witness ==
    /\ swap.pc = "idle"
    /\ swap.exits = <<"Swap completed">>
    /\ swap.original =
          <<[easting |-> Num(299999), northing |-> Num(300001), area |-> Num(10)],
            [easting |-> Num(299999), northing |-> Num(300000), area |-> Num(10)]>>
    /\ rooftops =
          <<[easting |-> Num(300001), northing |-> Num(299999), area |-> Num(10)],
            [easting |-> Num(300000), northing |-> Num(299999), area |-> Num(10)]>>

\* C28: running the script again on a database on which it has just
\* completed a swap detects no swap and changes nothing: from any initial
\* table, the script changes the table at most once over any number of
\* consecutive runs.
C28_SecondRunChangesNothing ==
    [][(\E k \in 1..Len(swap.exits) : swap.exits[k] = "Swap completed") =>
          /\ DatabaseUntouched
          /\ swap'.pc = "idle"
          /\ swap'.exits # swap.exits =>
                swap'.exits = Append(swap.exits, "No swap detected")]_vars

C28_Witness ==
    /\ swap.pc = "idle"
    /\ swap.exits = <<"Swap completed", "No swap detected">>
    /\ Len(backups) = 1
    /\ rooftops # <<>> /\ rooftops # swap.original

\* C29: a find_nearest_building scan that runs concurrently with the
\* script, or after the script was interrupted at any commit point, always
\* finds a rooftops table holding either all the original rows or all the
\* swapped rows: it never observes a missing table, an empty table or a
\* partly filled table.
C29_ScanSeesWholeTable ==
    (nearest.called /\ backups # <<>>) =>
        nearest.result.message
            \notin {"Database error", "No buildings found in database"}

-----------------------------------------------------------------------------
(* Claims about /total, checked under SpecTotal *)

\* C30: /total never fails when the database cannot be read: every request
\* is answered with status 200, either with total_liters 0 and an error
\* message or with the totals of the rows loaded.
C30_TotalNeverFails ==
    total.called => total.code = 200

\* The rest of C30, which holds: when load_rooftops has opened the database
\* it has closed it again; a failing query gives total_liters 0 with an
\* error message; rows loaded give total_liters = sum of areas * 1200 * 0.85,
\* rooftop_count the number of rows and total_area_m2 the sum of areas.
C30_TotalsWhenOpened ==
    (total.called /\ total.loaded.status = "ok") =>
        /\ total.loaded.connection = <<"connect", "close">>
        /\ IF rooftops_table /\ total.schema = "lat, lon, area" /\ rooftops # <<>>
           THEN /\ total.payload.total_area_m2 = AreaSum(rooftops, Len(rooftops))
                /\ total.payload.rooftop_count = Len(rooftops)
                /\ total.payload.total_liters.den * 1200 * 85
                       * total.payload.total_area_m2.num
                   = total.payload.total_liters.num * 100
                       * total.payload.total_area_m2.den
           ELSE /\ total.payload.total_liters = Float(0)
                /\ total.payload.error = "No rooftop data available"

C30_TotalsWitness ==
    /\ total.called
    /\ total.loaded.status = "ok"
    /\ Len(rooftops) = 2
    /\ total.payload.total_liters = Float(30600)

=============================================================================
